---- MODULE Spec2Model ----
(***************************************************************************)
(* A model of the Dominion engine of src/dominion (cards.py, player.py,    *)
(* game.py, util.py).  The state is the Game object: its players (each a   *)
(* Player with deck, hand, discard_pile, actions, money, buys), its supply *)
(* and its turn counter.  Every method is modelled as a function from a    *)
(* game state to an outcome: the state it leaves and the exception it      *)
(* raises ("None" when it returns normally).                               *)
(***************************************************************************)
EXTENDS Integers, Sequences, FiniteSets, TLC

(*************************** bounds of the model ***************************)
\* The supply piles hold 60, 40 and 30 cards in the source (game.py:32-34);
\* the model keeps the three piles and their costs and scales their sizes,
\* so that a pile can run empty within the explored runs.
CopperPile == 2
SilverPile == 1
GoldPile == 1
\* random.shuffle may return any permutation; the model explores those within
\* MaxSwaps adjacent transpositions of the dealt order.
MaxSwaps == 1
\* Direct calls of a card's play() are explored while the counters they
\* leave stay within these caps.  MaxMoney is also the most money a test
\* arranges: enough to buy out the scaled Silver and Gold piles.
MaxActions == 2
MaxMoney == 9
MaxBuys == 2
\* Longest hand a test arranges for the player under test.
MaxHand == 2
\* Longest deck and discard pile a test of the zone operations arranges.
MaxDeck == 2
MaxDiscard == 2

(**************************** program constants ****************************)
NumPlayers == 2
StartingCopper == 7
StartingEstate == 3
HandSize == 5

Players == 0 .. (NumPlayers - 1)

TreasureKinds == {"Copper", "Silver", "Gold"}
VictoryKinds == {"Estate"}
ActionKinds ==
  {"Smithy", "Village", "Market", "Cellar", "Moat", "Mine", "Witch", "Laboratory"}
Kinds == TreasureKinds \cup VictoryKinds \cup ActionKinds

\* Card.cost as set by each constructor call of the source.
cost(k) ==
  CASE k = "Copper" -> 0
    [] k = "Silver" -> 3
    [] k = "Gold" -> 6
    [] k = "Estate" -> 2
    [] k = "Smithy" -> 4
    [] k = "Village" -> 3
    [] k = "Market" -> 5
    [] k = "Cellar" -> 2
    [] k = "Moat" -> 2
    [] k = "Mine" -> 5
    [] k = "Witch" -> 5
    [] k = "Laboratory" -> 5

\* TreasureCard.value as passed by each constructor call of the source.
value(k) ==
  CASE k = "Copper" -> 1
    [] k = "Silver" -> 2
    [] k = "Gold" -> 3

VARIABLES
  players,   \* Game.players: player index -> Player fields
  supply,    \* Game.supply: pile name -> number of cards left in the pile
  turn,      \* Game.turn
  pc,        \* where the single thread of control is
  last,      \* the last call made: op, player p, card k, the exception it
             \* raised ("None": it returned None), and whether it bought a card
  gains      \* per player, the number of purchases that went through

vars == <<players, supply, turn, pc, last, gains>>

\* The Game object as one value.
Here == [players |-> players, supply |-> supply, turn |-> turn]

Ok(s) == [s |-> s, exc |-> "None"]
Raise(s, e) == [s |-> s, exc |-> e]

(******************************** Player **********************************)
NewPlayer ==
  [deck |-> <<>>, hand |-> <<>>, discard_pile |-> <<>>,
   actions |-> 1, money |-> 0, buys |-> 1]

\* Player.draw_card: the body is `pass`.
draw_card(s, p) == s

\* discard_hand that appends the hand to the discard pile without clearing it.
discard_hand_copies(s, p) ==
  [s EXCEPT !.players[p].discard_pile = @ \o s.players[p].hand]

\* Player.discard_hand
discard_hand(s, p) ==
  [s EXCEPT !.players[p].discard_pile = @ \o s.players[p].hand,
            !.players[p].hand = <<>>]

\* reset_for_new_turn without the assignment to buys.
reset_for_new_turn_keeps_buys(s, p) ==
  [s EXCEPT !.players[p].actions = 1,
            !.players[p].money = 0]

\* Player.reset_for_new_turn
reset_for_new_turn(s, p) ==
  [s EXCEPT !.players[p].actions = 1,
            !.players[p].money = 0,
            !.players[p].buys = 1]

\* Player.choose_action_card: the first ActionCard in hand, else None.
choose_action_card(s, p) ==
  LET h == s.players[p].hand
      idx == {i \in 1 .. Len(h) : h[i] \in ActionKinds}
  IN  IF idx = {} THEN "None"
      ELSE h[CHOOSE i \in idx : \A j \in idx : i <= j]

\* Player.choose_purchase(game): the first pile, in dict insertion order,
\* that is non-empty and affordable.
SupplyOrder == <<"Copper", "Silver", "Gold">>

choose_purchase(s, p) ==
  LET idx == {i \in 1 .. Len(SupplyOrder) :
                /\ s.supply[SupplyOrder[i]] > 0
                /\ cost(SupplyOrder[i]) <= s.players[p].money}
  IN  IF idx = {} THEN "None"
      ELSE SupplyOrder[CHOOSE i \in idx : \A j \in idx : i <= j]

\* The outcome of buy_card: bought tells whether the purchase branch ran.
Bought(s) == [s |-> s, exc |-> "None", bought |-> TRUE]
NotBought(s, e) == [s |-> s, exc |-> e, bought |-> FALSE]

\* buy_card with the purchased card popped and paid for, but not appended.
buy_card_no_append(s, p, k) ==
  IF cost(k) <= s.players[p].money
  THEN IF k \notin DOMAIN s.supply
       THEN NotBought(s, "KeyError")
       ELSE IF s.supply[k] > 0
            THEN Bought([s EXCEPT !.players[p].money = @ - cost(k),
                                  !.supply[k] = @ - 1])
            ELSE NotBought(s, "None")
  ELSE NotBought(s, "None")

\* buy_card without the test that the pile is non-empty.
buy_card_no_pile_check(s, p, k) ==
  IF cost(k) <= s.players[p].money
  THEN IF k \notin DOMAIN s.supply
       THEN NotBought(s, "KeyError")
       ELSE Bought([s EXCEPT !.players[p].money = @ - cost(k),
                             !.supply[k] = @ - 1,
                             !.players[p].discard_pile = Append(@, k)])
  ELSE NotBought(s, "None")

\* buy_card without the test that the card is affordable.
buy_card_no_cost_check(s, p, k) ==
  IF k \notin DOMAIN s.supply
  THEN NotBought(s, "KeyError")
  ELSE IF s.supply[k] > 0
       THEN Bought([s EXCEPT !.players[p].money = @ - cost(k),
                             !.supply[k] = @ - 1,
                             !.players[p].discard_pile = Append(@, k)])
       ELSE NotBought(s, "None")

\* Player.buy_card(card, game), card of kind k.  `and` short-circuits, so
\* game.supply[card.name] is evaluated (KeyError for a kind with no pile)
\* only when the card is affordable.  The method returns None on every path
\* and neither reads nor writes self.buys.
buy_card(s, p, k) ==
  IF cost(k) <= s.players[p].money
  THEN IF k \notin DOMAIN s.supply
       THEN NotBought(s, "KeyError")
       ELSE IF s.supply[k] > 0
            THEN Bought([s EXCEPT !.players[p].money = @ - cost(k),
                                  !.supply[k] = @ - 1,
                                  !.players[p].discard_pile = Append(@, k)])
            ELSE NotBought(s, "None")
  ELSE NotBought(s, "None")

(********************************* cards ***********************************)
\* <Card>.effect(player, game) of each ActionCard subclass.
effect(k, s, p) ==
  CASE k = "Smithy" -> Ok(draw_card(draw_card(draw_card(s, p), p), p))
    [] k = "Village" ->
         Ok([draw_card(s, p) EXCEPT !.players[p].actions = @ + 2])
    [] k = "Market" ->
         Ok([draw_card(s, p) EXCEPT !.players[p].actions = @ + 1,
                                    !.players[p].buys = @ + 1,
                                    !.players[p].money = @ + 1])
    \* Player has no choose_cards_to_discard
    [] k = "Cellar" -> Raise(s, "AttributeError")
    [] k = "Moat" -> Ok(draw_card(draw_card(s, p), p))
    \* Player has no choose_treasure_card_to_trash
    [] k = "Mine" -> Raise(s, "AttributeError")
    \* two draws, then Game has no get_other_players
    [] k = "Witch" -> Raise(draw_card(draw_card(s, p), p), "AttributeError")
    [] k = "Laboratory" ->
         Ok([draw_card(draw_card(s, p), p) EXCEPT !.players[p].actions = @ + 1])

\* ActionCard.play without the test of player.actions.
ActionCard_play_no_check(k, s, p) ==
  effect(k, [s EXCEPT !.players[p].actions = @ - 1], p)

\* ActionCard.play(player, game)
ActionCard_play(k, s, p) ==
  IF s.players[p].actions > 0
  THEN effect(k, [s EXCEPT !.players[p].actions = @ - 1], p)
  ELSE Raise(s, "AttributeError")   \* Game has no inform_player

\* TreasureCard.play: Game has no can_play_treasure.
TreasureCard_play(k, s, p) == Raise(s, "AttributeError")

\* VictoryCard.play: the body is `pass`.
VictoryCard_play(k, s, p) == Ok(s)

\* card.play(player, game), dispatched on the card's class.
play(k, s, p) ==
  IF k \in ActionKinds THEN ActionCard_play(k, s, p)
  ELSE IF k \in TreasureKinds THEN TreasureCard_play(k, s, p)
  ELSE VictoryCard_play(k, s, p)

(********************************** util ***********************************)
\* An exchange that copies one element over the other.
Swap_overwrites(d, i) == [d EXCEPT ![i] = d[i + 1]]

\* random.shuffle exchanges elements of the list in place.
Swap(d, i) == [d EXCEPT ![i] = d[i + 1], ![i + 1] = d[i]]

RECURSIVE WithinSwaps(_, _)
WithinSwaps(d, n) ==
  IF n = 0 THEN {d}
  ELSE LET prev == WithinSwaps(d, n - 1)
       IN  prev \cup {Swap(t, i) : t \in prev, i \in 1 .. (Len(d) - 1)}

\* shuffle_deck(deck): the orders random.shuffle may leave the deck in.
shuffle_deck(d) == WithinSwaps(d, MaxSwaps)

(********************************** Game ***********************************)
\* Game.initialize_supply: the three Treasure piles.
initialize_supply ==
  [k \in {"Copper", "Silver", "Gold"} |->
     CASE k = "Copper" -> CopperPile
       [] k = "Silver" -> SilverPile
       [] k = "Gold" -> GoldPile]

\* Game.deal_starting_deck: appends 7 Copper, then 3 Estate.
deal_starting_deck(d) ==
  d \o [i \in 1 .. StartingCopper |-> "Copper"]
    \o [i \in 1 .. StartingEstate |-> "Estate"]

\* Game.buy_phase: the first iteration calls player.choose_purchase() without
\* its `game` argument, which raises TypeError before anything is bought.
buy_phase(s, p) ==
  IF s.players[p].buys > 0 THEN Raise(s, "TypeError") ELSE Ok(s)

\* Game.buy_phase for a player whose choose_purchase is replaced by a test
\* double that takes no argument and returns a card of kind c every time
\* ("None": it returns None).  self.supply[purchase.name] raises KeyError for
\* a kind with no pile; buys is decremented after every call of buy_card.
RECURSIVE buy_phase_stubbed(_, _, _)
buy_phase_stubbed(s, p, c) ==
  IF s.players[p].buys > 0
  THEN IF c = "None" THEN Ok(s)
       ELSE IF c \notin DOMAIN s.supply THEN Raise(s, "KeyError")
       ELSE IF s.supply[c] > 0
            THEN buy_phase_stubbed(
                   [buy_card(s, p, c).s EXCEPT !.players[p].buys = @ - 1], p, c)
            ELSE Ok(s)
  ELSE Ok(s)

RECURSIVE draw_cards(_, _, _)
draw_cards(s, p, n) ==
  IF n = 0 THEN s ELSE draw_cards(draw_card(s, p), p, n - 1)

\* Game.cleanup_phase
cleanup_phase(s, p) ==
  reset_for_new_turn(draw_cards(discard_hand(s, p), p, HandSize), p)

\* A pass of the loop that does not test player.actions.
action_phase_step_no_guard(s, p) ==
  LET k == choose_action_card(s, p)
  IN  IF k # "None"
      THEN LET o == play(k, s, p)
           IN  IF o.exc # "None"
               THEN [s |-> o.s, exc |-> o.exc, cont |-> FALSE, k |-> k]
               ELSE [s |-> [o.s EXCEPT !.players[p].actions = @ - 1],
                     exc |-> "None", cont |-> TRUE, k |-> k]
      ELSE [s |-> s, exc |-> "None", cont |-> FALSE, k |-> "None"]

\* A pass of the loop that takes the action from the next player.
action_phase_step_charges_next(s, p) ==
  IF s.players[p].actions > 0
  THEN LET k == choose_action_card(s, p)
       IN  IF k # "None"
           THEN LET o == play(k, s, p)
                IN  IF o.exc # "None"
                    THEN [s |-> o.s, exc |-> o.exc, cont |-> FALSE, k |-> k]
                    ELSE [s |-> [o.s EXCEPT
                                   !.players[(p + 1) % NumPlayers].actions = @ - 1],
                          exc |-> "None", cont |-> TRUE, k |-> k]
           ELSE [s |-> s, exc |-> "None", cont |-> FALSE, k |-> "None"]
  ELSE [s |-> s, exc |-> "None", cont |-> FALSE, k |-> "None"]

\* One pass of the while loop of Game.action_phase.  cont tells whether the
\* loop goes on; k is the card played, "None" when the loop is left.
action_phase_step(s, p) ==
  IF s.players[p].actions > 0
  THEN LET k == choose_action_card(s, p)
       IN  IF k # "None"
           THEN LET o == play(k, s, p)
                IN  IF o.exc # "None"
                    THEN [s |-> o.s, exc |-> o.exc, cont |-> FALSE, k |-> k]
                    ELSE [s |-> [o.s EXCEPT !.players[p].actions = @ - 1],
                          exc |-> "None", cont |-> TRUE, k |-> k]
           ELSE [s |-> s, exc |-> "None", cont |-> FALSE, k |-> "None"]
  ELSE [s |-> s, exc |-> "None", cont |-> FALSE, k |-> "None"]

\* Game.play_round after its action phase has returned.
play_round_rest(s, p) ==
  LET b == buy_phase(s, p)
  IN  IF b.exc # "None" THEN b
      ELSE Ok([cleanup_phase(b.s, p) EXCEPT !.turn = @ + 1])

\* players[self.turn % len(self.players)]
current_player(s) == s.turn % NumPlayers

(***************************** initial states ******************************)
Idle == [at |-> "idle", p |-> 0, round |-> FALSE, spin |-> 0]

Called(op, p, k, exc, bought) ==
  [op |-> op, p |-> p, k |-> k, exc |-> exc, bought |-> bought]

\* Game(players) followed by setup_game(), as at the end of game.py.
SetupGame ==
  /\ players \in [Players -> {[NewPlayer EXCEPT !.deck = d] :
                                d \in shuffle_deck(deal_starting_deck(<<>>))}]
  /\ supply = initialize_supply
  /\ turn = 0
  /\ pc = Idle
  /\ last = Called("setup_game", 0, "None", "None", FALSE)
  /\ gains = [p \in Players |-> 0]

Init == SetupGame

\* The player a test arranges and drives.
UnderTest == 0

\* The hands a test arranges: at most MaxHand cards, each a Copper or a card
\* of one Action kind (choose_action_card only ever returns the first Action
\* card of the hand, and no operation removes a card from the hand one by
\* one, so a second Action kind in the hand would never be played).
Hands ==
  UNION {UNION {[1 .. n -> {"Copper", k}] : n \in 0 .. MaxHand} : k \in ActionKinds}

\* A test's arrange step after setup_game (the fields are plain attributes):
\* the player under test is given either a hand and a number of actions, or
\* an amount of money and a number of buys.
ArrangedPlayers ==
  {[NewPlayer EXCEPT !.deck = deal_starting_deck(<<>>), !.hand = h, !.actions = a] :
     h \in Hands, a \in 0 .. MaxActions}
  \cup
  {[NewPlayer EXCEPT !.deck = deal_starting_deck(<<>>), !.money = m, !.buys = b] :
     m \in 0 .. MaxMoney, b \in 0 .. MaxBuys}

Arranged ==
  /\ \E t \in ArrangedPlayers :
        players = [p \in Players |->
                     IF p = UnderTest THEN t
                     ELSE [NewPlayer EXCEPT !.deck = deal_starting_deck(<<>>)]]
  /\ supply = initialize_supply
  /\ turn = 0
  /\ pc = Idle
  /\ last = Called("setup_game", 0, "None", "None", FALSE)
  /\ gains = [p \in Players |-> 0]

\* The decks and discard piles a test of the zone operations arranges.
Piles(n) == UNION {[1 .. m -> {"Copper", "Estate"}] : m \in 0 .. n}

\* A test's arrange step for the zone operations: the player under test is
\* given a deck, a discard pile and a hand of up to five Coppers.
ZonePlayers ==
  {[NewPlayer EXCEPT !.deck = d, !.discard_pile = x,
                     !.hand = [i \in 1 .. n |-> "Copper"]] :
     d \in Piles(MaxDeck), x \in Piles(MaxDiscard), n \in 0 .. HandSize}

ArrangedZones ==
  /\ \E t \in ZonePlayers :
        players = [p \in Players |->
                     IF p = UnderTest THEN t
                     ELSE [NewPlayer EXCEPT !.deck = deal_starting_deck(<<>>)]]
  /\ supply = initialize_supply
  /\ turn = 0
  /\ pc = Idle
  /\ last = Called("setup_game", 0, "None", "None", FALSE)
  /\ gains = [p \in Players |-> 0]

(******************************** actions **********************************)
Store(s) ==
  /\ players' = s.players
  /\ supply' = s.supply
  /\ turn' = s.turn

WithinCaps(s, p) ==
  /\ s.players[p].actions <= MaxActions
  /\ s.players[p].money <= MaxMoney
  /\ s.players[p].buys <= MaxBuys

\* card.play(player, game) called on a card of kind k, for the player whose
\* turn it is.
PlayCard(p, k) ==
  /\ pc.at = "idle"
  /\ p = current_player(Here)
  /\ LET o == play(k, Here, p)
     IN  /\ WithinCaps(o.s, p)
         /\ Store(o.s)
         /\ last' = Called("play", p, k, o.exc, FALSE)
  /\ UNCHANGED <<pc, gains>>

\* player.buy_card(card, game) called with a card of kind k.
BuyCard(p, k) ==
  /\ pc.at = "idle"
  /\ LET o == buy_card(Here, p, k)
     IN  /\ Store(o.s)
         /\ last' = Called("buy_card", p, k, o.exc, o.bought)
         /\ gains' = [gains EXCEPT ![p] = IF o.bought THEN @ + 1 ELSE @]
  /\ UNCHANGED pc

\* player.discard_hand()
DiscardHand(p) ==
  /\ pc.at = "idle"
  /\ Store(discard_hand(Here, p))
  /\ last' = Called("discard_hand", p, "None", "None", FALSE)
  /\ UNCHANGED <<pc, gains>>

\* game.cleanup_phase(player)
CleanupPhase(p) ==
  /\ pc.at = "idle"
  /\ Store(cleanup_phase(Here, p))
  /\ last' = Called("cleanup_phase", p, "None", "None", FALSE)
  /\ UNCHANGED <<pc, gains>>

\* game.buy_phase(player)
BuyPhase(p) ==
  /\ pc.at = "idle"
  /\ LET o == buy_phase(Here, p)
     IN  /\ Store(o.s)
         /\ last' = Called("buy_phase", p, "None", o.exc, FALSE)
  /\ UNCHANGED <<pc, gains>>

\* game.action_phase(player) is entered.
ActionPhase(p) ==
  /\ pc.at = "idle"
  /\ pc' = [at |-> "action_phase", p |-> p, round |-> FALSE, spin |-> 0]
  /\ last' = Called("enter_action_phase", p, "None", "None", FALSE)
  /\ UNCHANGED <<players, supply, turn, gains>>

\* game.play_round() is entered: the action phase of the current player.
PlayRound ==
  /\ pc.at = "idle"
  /\ pc' = [at |-> "action_phase", p |-> current_player(Here),
            round |-> TRUE, spin |-> 0]
  /\ last' = Called("enter_play_round", current_player(Here), "None", "None", FALSE)
  /\ UNCHANGED <<players, supply, turn, gains>>

\* One pass of the loop of the running action phase; when the loop is left,
\* action_phase returns (or raises) and, inside play_round, the rest of the
\* round runs.
ActionPhaseIter ==
  /\ pc.at = "action_phase"
  /\ LET p == pc.p
         o == action_phase_step(Here, p)
     IN  IF o.cont
         THEN /\ Store(o.s)
              /\ pc' = [pc EXCEPT !.spin = 1 - @]
              /\ last' = Called("iter", p, o.k, "None", FALSE)
         ELSE IF o.exc # "None"
         THEN /\ Store(o.s)
              /\ pc' = Idle
              /\ last' = Called(IF pc.round THEN "play_round" ELSE "action_phase",
                                p, o.k, o.exc, FALSE)
         ELSE IF pc.round
         THEN LET r == play_round_rest(o.s, p)
              IN  /\ Store(r.s)
                  /\ pc' = Idle
                  /\ last' = Called("play_round", p, "None", r.exc, FALSE)
         ELSE /\ Store(o.s)
              /\ pc' = Idle
              /\ last' = Called("action_phase", p, "None", "None", FALSE)
  /\ UNCHANGED gains

\* player.draw_card()
DrawCard(p) ==
  /\ pc.at = "idle"
  /\ Store(draw_card(Here, p))
  /\ last' = Called("draw_card", p, "None", "None", FALSE)
  /\ UNCHANGED <<pc, gains>>

\* shuffle_deck(player.deck)
ShuffleDeck(p) ==
  /\ pc.at = "idle"
  /\ \E d \in shuffle_deck(players[p].deck) :
        players' = [players EXCEPT ![p].deck = d]
  /\ last' = Called("shuffle_deck", p, "None", "None", FALSE)
  /\ UNCHANGED <<supply, turn, pc, gains>>

\* game.buy_phase(player) for a player whose choose_purchase returns c.
BuyPhaseStubbed(p, c) ==
  /\ pc.at = "idle"
  /\ LET o == buy_phase_stubbed(Here, p, c)
     IN  /\ Store(o.s)
         /\ last' = Called("buy_phase_stubbed", p, c, o.exc, FALSE)
         /\ gains' = [gains EXCEPT ![p] = @ + Len(o.s.players[p].discard_pile)
                                            - Len(players[p].discard_pile)]
  /\ UNCHANGED pc

\* The cards direct calls are explored with: buy_card only reads a card's
\* cost and whether its name has a pile, play only its class.
BuyKinds == {"Copper", "Silver", "Gold", "Estate", "Village"}
PlayKinds == ActionKinds \cup {"Copper", "Estate"}

Next ==
  \/ \E p \in Players, k \in PlayKinds : PlayCard(p, k)
  \/ \E p \in Players, k \in BuyKinds : BuyCard(p, k)
  \/ \E p \in Players : DiscardHand(p)
  \/ \E p \in Players : CleanupPhase(p)
  \/ \E p \in Players : BuyPhase(p)
  \/ \E p \in Players : ActionPhase(p)
  \/ PlayRound
  \/ ActionPhaseIter

Spec == Init /\ [][Next]_vars

\* The calls a test makes on the player it arranged: the player's methods,
\* the phases, and whole rounds.
NextArranged ==
  \/ \E k \in BuyKinds : BuyCard(UnderTest, k)
  \/ DiscardHand(UnderTest)
  \/ CleanupPhase(UnderTest)
  \/ BuyPhase(UnderTest)
  \/ ActionPhase(UnderTest)
  \/ PlayRound
  \/ ActionPhaseIter

SpecArranged == Arranged /\ [][NextArranged]_vars

\* The zone operations called on the player a test arranged.
NextZones ==
  \/ DrawCard(UnderTest)
  \/ ShuffleDeck(UnderTest)
  \/ DiscardHand(UnderTest)
  \/ CleanupPhase(UnderTest)

SpecZones == ArrangedZones /\ [][NextZones]_vars

\* Buy phases of the arranged player with its choice of purchase stubbed.
NextStubbed ==
  \/ \E c \in BuyKinds \cup {"None"} : BuyPhaseStubbed(UnderTest, c)
  \/ CleanupPhase(UnderTest)

SpecStubbed == Arranged /\ [][NextStubbed]_vars

\* The interpreter keeps running a loop it is in.
SpecArrangedFair == Arranged /\ [][NextArranged]_vars /\ WF_vars(ActionPhaseIter)

(******************************** claims ***********************************)
Owned(p) ==
  Len(players[p].deck) + Len(players[p].hand) + Len(players[p].discard_pile)

\* C1: in every state reached from setup_game, each player's cards over all
\* its zones (deck, hand, discard pile; the source keeps no play area) number
\* 10 plus that player's successful purchases; no operation of the source
\* trashes a card (Mine raises before it would), so nothing is subtracted.
C1_CardTotal ==
  \A p \in Players : Owned(p) = StartingCopper + StartingEstate + gains[p]

\* A player has bought a card and then gone through a cleanup phase.
C1_Witness ==
  /\ last.op = "cleanup_phase"
  /\ gains[last.p] >= 1
  /\ Len(players[last.p].discard_pile) >= 1

\* C2: no pile is ever negative; a pile shrinks by exactly one in a step in
\* which a purchase of its kind goes through, and is left alone by every
\* other step (plays, failed purchases, discard_hand, phases, rounds).
C2_SupplyOnlyShrinksByPurchase ==
  /\ [](\A k \in DOMAIN supply : supply[k] >= 0)
  /\ [][\A k \in DOMAIN supply :
          supply'[k] = IF last'.op = "buy_card" /\ last'.bought /\ last'.k = k
                       THEN supply[k] - 1
                       ELSE supply[k]]_vars

\* A pile has been bought empty and a further purchase from it was refused.
C2_Witness ==
  /\ last.op = "buy_card"
  /\ ~last.bought
  /\ last.k = "Copper"
  /\ supply["Copper"] = 0

\* C3: a buy_card call for a card that costs more than the player's money, or
\* whose pile is empty, changes nothing: the player's money, buys and discard
\* pile and every pile are as before.
C3_RefusedPurchaseChangesNothing ==
  [][(/\ last'.op = "buy_card"
      /\ \/ cost(last'.k) > players[last'.p].money
         \/ (last'.k \in DOMAIN supply /\ supply[last'.k] = 0))
     => /\ players' = players
        /\ supply' = supply
        /\ last'.exc = "None"]_vars

\* buy_card was called for a Silver (cost 3) by a player with 2 money.
C3_Witness ==
  /\ last.op = "buy_card"
  /\ last.k = "Silver"
  /\ ~last.bought
  /\ players[last.p].money = 2
  /\ supply["Silver"] >= 1

\* C4: a buy_card call that did not go through reports IllegalPurchase to its
\* caller.
C4_RefusalReported ==
  (last.op = "buy_card" /\ ~last.bought) => last.exc = "IllegalPurchase"

\* C5: buy_card hands over a card only to a player with at least one buy
\* (buy_card leaves buys alone, so its value after the call is the one it was
\* called with).
C5_PurchaseNeedsABuy ==
  (last.op = "buy_card" /\ last.bought) => players[last.p].buys >= 1

RECURSIVE SumCost(_)
SumCost(cs) == IF cs = <<>> THEN 0 ELSE cost(Head(cs)) + SumCost(Tail(cs))

RECURSIVE PileTotal(_, _)
PileTotal(sup, ks) ==
  IF ks = {} THEN 0
  ELSE LET k == CHOOSE x \in ks : TRUE IN sup[k] + PileTotal(sup, ks \ {k})

\* C6: a buy phase entered with b >= 1 buys and a card the player can afford
\* returns having made n purchases, 1 <= n <= b, each of which took one card
\* from a pile into the discard pile, its cost from the money and one buy.
C6_BuyPhasePurchases ==
  [][(/\ last'.op = "buy_phase"
      /\ players[last'.p].buys >= 1
      /\ choose_purchase(Here, last'.p) # "None")
     => LET p == last'.p
            n == PileTotal(supply, DOMAIN supply) - PileTotal(supply', DOMAIN supply)
            old == players[p].discard_pile
            new == players'[p].discard_pile
        IN  /\ last'.exc = "None"
            /\ n >= 1
            /\ n <= players[p].buys
            /\ players'[p].buys = players[p].buys - n
            /\ Len(new) = Len(old) + n
            /\ players'[p].money =
                 players[p].money - SumCost(SubSeq(new, Len(old) + 1, Len(new)))]_vars

\* +k actions granted by the effect of each Action card that resolves.
granted(k) ==
  CASE k = "Village" -> 2
    [] k \in {"Market", "Laboratory"} -> 1
    [] OTHER -> 0

\* C7: a card played in the action phase leaves the player with the actions
\* it had, minus the one consumed, plus those its effect grants.
C7_PlayConsumesOneAction ==
  [][last'.op = "iter"
     => players'[last'.p].actions =
          players[last'.p].actions - 1 + granted(last'.k)]_vars

Count(k, h) == Len(SelectSeq(h, LAMBDA x : x = k))

\* C8: a card played in the action phase leaves the hand; for Village with a
\* non-empty deck one card moves from the deck to the hand, so the hand is as
\* long as before.
C8_PlayedCardLeavesHand ==
  [][last'.op = "iter"
     => LET p == last'.p
            k == last'.k
        IN  /\ Count(k, players'[p].hand) = Count(k, players[p].hand) - 1
            /\ (k = "Village" /\ players[p].deck # <<>>)
                 => /\ Len(players'[p].hand) = Len(players[p].hand)
                    /\ Len(players'[p].deck) = Len(players[p].deck) - 1]_vars

\* C9: no counter of any player is ever negative.
C9_CountersNonNegative ==
  \A p \in Players :
    /\ players[p].actions >= 0
    /\ players[p].buys >= 0
    /\ players[p].money >= 0

\* C10: an action phase that has been entered is eventually left.
C10_ActionPhaseTerminates ==
  (pc.at = "action_phase") ~> (pc.at = "idle")

Min(a, b) == IF a <= b THEN a ELSE b

\* A cleanup phase has just run for last.p, called directly or as the end of
\* a round that completed.
CleanedUp ==
  \/ last.op = "cleanup_phase"
  \/ (last.op = "play_round" /\ last.exc = "None")

\* C11: after a player's cleanup phase its hand holds min(5, cards it owns).
C11_HandRefilledByCleanup ==
  CleanedUp => Len(players[last.p].hand) = Min(HandSize, Owned(last.p))

Counters(p) == <<players[p].actions, players[p].buys, players[p].money>>

C14_RoundCompletes ==
  [][last'.op = "play_round"
     => /\ last'.exc = "None"
        /\ last'.p = turn % NumPlayers
        /\ turn' = turn + 1]_vars

\* C15: after setup_game every player owns 7 Copper and 3 Estate, 5 of them in
\* hand and 5 in the deck, and has an empty discard pile.
C15_StartingHandDealt ==
  last.op = "setup_game"
    => \A p \in Players :
         LET all == players[p].deck \o players[p].hand \o players[p].discard_pile
         IN  /\ Count("Copper", all) = StartingCopper
             /\ Count("Estate", all) = StartingEstate
             /\ Len(all) = StartingCopper + StartingEstate
             /\ Len(players[p].hand) = HandSize
             /\ Len(players[p].deck) = StartingCopper + StartingEstate - HandSize
             /\ players[p].discard_pile = <<>>

\* C17: playing a Treasure card adds its value to the player's money and
\* leaves buys alone.
C17_TreasureAddsItsValue ==
  [][(last'.op = "play" /\ last'.k \in TreasureKinds)
     => /\ last'.exc = "None"
        /\ players'[last'.p].money = players[last'.p].money + value(last'.k)
        /\ players'[last'.p].buys = players[last'.p].buys]_vars

\* The Curse pile; the supply of the source has none.
CursePile(sup) == IF "Curse" \in DOMAIN sup THEN sup["Curse"] ELSE 0

\* C19: a Witch that resolves (played with an action left) returns normally;
\* the other players, in seating order, gain one Curse each while the Curse
\* pile lasts, and the player of the Witch gains none.
C19_WitchCursesOpponents ==
  [][(last'.op = "play" /\ last'.k = "Witch" /\ players[last'.p].actions > 0)
     => LET p == last'.p
            others == Players \ {p}
            given == Min(Cardinality(others), CursePile(supply))
        IN  /\ last'.exc = "None"
            /\ CursePile(supply') = CursePile(supply) - given
            /\ \A q \in others :
                 Count("Curse", players'[q].discard_pile) =
                   Count("Curse", players[q].discard_pile) +
                     (IF Cardinality({r \in others : r < q}) < given THEN 1 ELSE 0)
            /\ Count("Curse", players'[p].discard_pile) =
                 Count("Curse", players[p].discard_pile)]_vars

\* C20: a Mine that resolves (played with an action left) returns normally
\* and gains no card costing more than the trashed card plus 3; with no
\* Treasure in hand it trashes and gains nothing.
C20_MineBoundedGain ==
  [][(last'.op = "play" /\ last'.k = "Mine" /\ players[last'.p].actions > 0)
     => LET p == last'.p
            h == players[p].hand
        IN  /\ last'.exc = "None"
            /\ (\A i \in 1 .. Len(h) : h[i] \notin TreasureKinds)
                 => /\ players'[p].hand = h
                    /\ players'[p].discard_pile = players[p].discard_pile
                    /\ players'[p].deck = players[p].deck
                    /\ supply' = supply]_vars

\* The end-of-game condition of the claim: a Victory pile bought empty, or
\* three or more piles empty at once.
GameOver ==
  \/ \E k \in DOMAIN supply \cap VictoryKinds : supply[k] = 0
  \/ Cardinality({k \in DOMAIN supply : supply[k] = 0}) >= 3

\* C18: once the game is over, turn is not advanced again.
C18_NoTurnAfterGameOver ==
  [][GameOver => turn' = turn]_vars

\* C12: a draw from an empty deck with a non-empty discard pile moves the
\* whole discard pile into the deck and then one card from the deck to the
\* hand; a cleanup phase entered with hand 5, discard 2 and deck 1 ends with
\* hand 5, deck 3 and discard 0.
C12_DrawRefillsDeck ==
  [][LET p == last'.p
         old == players[p]
         new == players'[p]
     IN  /\ (/\ last'.op = "draw_card"
             /\ old.deck = <<>>
             /\ old.discard_pile # <<>>)
              => /\ new.discard_pile = <<>>
                 /\ Len(new.deck) = Len(old.discard_pile) - 1
                 /\ Len(new.hand) = Len(old.hand) + 1
         /\ (/\ last'.op = "cleanup_phase"
             /\ Len(old.hand) = 5
             /\ Len(old.discard_pile) = 2
             /\ Len(old.deck) = 1)
              => /\ Len(new.hand) = 5
                 /\ Len(new.deck) = 3
                 /\ new.discard_pile = <<>>]_vars

C21_IdleActionPhaseChangesNothing ==
  [][(/\ pc.at = "action_phase"
      /\ ~pc.round
      /\ last.op = "enter_action_phase"
      /\ \/ players[pc.p].actions = 0
         \/ choose_action_card(Here, pc.p) = "None")
     => /\ pc'.at = "idle"
        /\ last'.op = "action_phase"
        /\ last'.exc = "None"
        /\ players' = players
        /\ supply' = supply
        /\ turn' = turn]_vars

\* An action phase has returned for a player holding a Village and no action
\* (a Village never takes actions from positive to 0, so it was entered so).
C21_Witness ==
  /\ last.op = "action_phase"
  /\ last.exc = "None"
  /\ players[last.p].actions = 0
  /\ players[last.p].hand = <<"Village">>

\* C22: ActionCard.play called with actions == 0 applies no effect: players
\* (counters and zones), supply and turn are as before the call.
C22_NoEffectWithoutAction ==
  [][(/\ last'.op = "play"
      /\ last'.k \in ActionKinds
      /\ players[last'.p].actions = 0)
     => /\ players' = players
        /\ supply' = supply
        /\ turn' = turn]_vars

\* A Market has been played by a player with no action left (Market.effect
\* itself never raises).
C22_Witness ==
  /\ last.op = "play"
  /\ last.k = "Market"
  /\ last.exc = "AttributeError"
  /\ players[last.p].actions = 0

\* All cards a player holds, and all cards the first n players hold.
HeldBy(pl, q) == pl[q].deck \o pl[q].hand \o pl[q].discard_pile

RECURSIVE Held(_, _)
Held(pl, n) == IF n = 0 THEN <<>> ELSE Held(pl, n - 1) \o HeldBy(pl, n - 1)

\* The cards of a pile; a kind without a pile has none.
Pile(sup, k) == IF k \in DOMAIN sup THEN sup[k] ELSE 0

\* C23: every operation (buy_card, discard_hand, the draws, an action card
\* played, a cleanup phase, a whole round) keeps, for each kind of card, the
\* number of cards in the supply plus in all players' zones: a card that moves
\* leaves its source and arrives in exactly one place.
C23_CardsConserved ==
  [][LET old == Held(players, NumPlayers)
         new == Held(players', NumPlayers)
     IN  \A k \in Kinds :
           Pile(supply', k) + Count(k, new) = Pile(supply, k) + Count(k, old)]_vars

\* A player who bought a card has discarded a hand holding an Action card.
C23_Witness ==
  /\ last.op = "discard_hand"
  /\ gains[last.p] >= 1
  /\ players[last.p].hand = <<>>
  /\ \E i \in 1 .. Len(players[last.p].discard_pile) :
        players[last.p].discard_pile[i] \in ActionKinds

\* C24: a buy phase lowers buys by no more than the number of cards it moved
\* from the supply to the player's discard pile, whatever card the player's
\* choose_purchase returns.
C24_BuysPaidOnlyForTransfers ==
  [][last'.op = "buy_phase_stubbed"
     => players[last'.p].buys - players'[last'.p].buys
          <= Len(players'[last'.p].discard_pile)
               - Len(players[last'.p].discard_pile)]_vars

\* C25: in every step of a round of play_round in which no Witch is played,
\* each player other than the one whose turn it is keeps its deck, hand,
\* discard pile, actions, buys and money.
C25_TurnTouchesOnlyActivePlayer ==
  [][((pc.round \/ pc'.round) /\ last'.k # "Witch")
     => \A q \in Players \ {current_player(Here)} :
          players'[q] = players[q]]_vars

\* A round in which player 0 played an action card (its actions went below
\* zero) has ended, and player 1 is as setup_game's deal left it.
C25_Witness ==
  /\ last.op = "play_round"
  /\ last.p = 0
  /\ players[0].actions < 0
  /\ players[1] = [NewPlayer EXCEPT !.deck = deal_starting_deck(<<>>)]

====
